---- MODULE Spec2Model ----
(***************************************************************************)
(* Model of the word search engine of src/lib/wordSearch.js: the Trie,    *)
(* the InvertedIndex, the length index and the WordSearchEngine queries,  *)
(* and of the request handler of /api/search that calls the engine.       *)
(*                                                                         *)
(* Strings are sequences of UTF-16 code units (integers), so that         *)
(* toLowerCase, the regular expressions of parseQuery and the default     *)
(* Array.prototype.sort order are computed rather than assumed.           *)
(* A JavaScript Set or Map keeps insertion order; a Set is modelled as a  *)
(* sequence without repetitions, a Map as a function plus the sequence of *)
(* its keys where the code iterates over it.                              *)
(***************************************************************************)
EXTENDS Integers, Sequences, FiniteSets, TLC

\* ------------------------------------------------------------------------
\* Bounds of the model
\* ------------------------------------------------------------------------
MaxWords == 2
MaxTokens == 3
MaxConstraints == 2
MaxPatternLen == 3
MaxPosition == 2
MaxDrift == 2

\* ------------------------------------------------------------------------
\* Characters (UTF-16 code units)
\* ------------------------------------------------------------------------
chSpace == 32
chComma == 44
ch0 == 48
ch2 == 50
ch7 == 55
chB == 66
chL == 76
chLBracket == 91
chRBracket == 93
chUnderscore == 95
cha == 97
chb == 98
chc == 99
che == 101
chl == 108
chr == 114
cht == 116

\* [A-Z], [a-z], [A-Za-z], \d and \s of the regular expressions
IsUpper(c) == c >= 65 /\ c <= 90
IsLower(c) == c >= 97 /\ c <= 122
IsLetter(c) == IsUpper(c) \/ IsLower(c)
IsDigit(c) == c >= 48 /\ c <= 57
IsSpace(c) == c \in {9, 10, 11, 12, 13, 32}

\* String.prototype.toLowerCase on one code unit and on a string
toLowerCaseChar(c) == IF IsUpper(c) THEN c + 32 ELSE c
toUpperCaseChar(c) == IF IsLower(c) THEN c - 32 ELSE c
RECURSIVE toLowerCase(_)
toLowerCase(s) ==
    IF s = <<>> THEN <<>>
    ELSE <<toLowerCaseChar(Head(s))>> \o toLowerCase(Tail(s))

\* ------------------------------------------------------------------------
\* JavaScript Set, in insertion order
\* ------------------------------------------------------------------------
Elems(s) == {s[i] : i \in 1..Len(s)}
SetHas(s, x) == \E i \in 1..Len(s) : s[i] = x
\* an array in place of the Set: push without the test for membership
SetAddAlways(s, x) == Append(s, x)

SetAdd(s, x) == IF SetHas(s, x) THEN s ELSE Append(s, x)

RECURSIVE SetAddAll(_, _)
\* xs.forEach(x => s.add(x))
SetAddAll(s, xs) ==
    IF xs = <<>> THEN s ELSE SetAddAll(SetAdd(s, Head(xs)), Tail(xs))

\* new Set(iterable) / Array.from(set)
NewSet(xs) == SetAddAll(<<>>, xs)

\* TLC evaluates the argument of an operator when it is first used; a loop
\* evaluates its state after each iteration with Then(state, rest)
Then(v, e) == IF v = v THEN e ELSE e

\* optional values: null is None, a value v is Some(v)
None == <<>>
Some(v) == <<v>>

\* ------------------------------------------------------------------------
\* Trie
\* ------------------------------------------------------------------------
\* A node is named by the path of characters that leads to it from the root.
TrieNode == [children |-> <<>>, isEndOfWord |-> FALSE, words |-> <<>>]

NewTrie == (<<>> :> TrieNode)

\* one iteration of the loop of insert: from node `node`, step to the child
\* for `char` (creating it when absent) and add the word to the child
InsertStep(t, node, char, word) ==
    LET child == Append(node, char)
        t1 == IF SetHas(t[node].children, char)
              THEN t
              ELSE [t EXCEPT ![node].children = Append(@, char)]
                   @@ (child :> TrieNode)
    IN [t1 EXCEPT ![child].words = SetAdd(@, word)]

RECURSIVE InsertFrom(_, _, _)
InsertFrom(t, word, i) ==
    IF i > Len(word)
    THEN [t EXCEPT ![word].isEndOfWord = TRUE]
    ELSE LET t1 == InsertStep(t, SubSeq(word, 1, i - 1), word[i], word)
         IN Then(t1, InsertFrom(t1, word, i + 1))

insert(t, word) == InsertFrom(t, word, 1)

RECURSIVE TrieSearchFrom(_, _, _)
TrieSearchFrom(t, prefix, i) ==
    LET node == SubSeq(prefix, 1, i - 1)
    IN IF i > Len(prefix)
       THEN t[node].words
       ELSE IF ~SetHas(t[node].children, prefix[i])
            THEN <<>>
            ELSE TrieSearchFrom(t, prefix, i + 1)

\* a search that returns the word that ends at the node of the prefix
TrieSearchEndOnly(t, prefix) ==
    IF prefix \in DOMAIN t /\ t[prefix].isEndOfWord THEN <<prefix>> ELSE <<>>

\* Trie.search(prefix)
TrieSearch(t, prefix) == TrieSearchFrom(t, prefix, 1)

RECURSIVE searchByPatternHelper(_, _, _, _, _, _)
RECURSIVE searchByPatternChildren(_, _, _, _, _, _, _)

\* a wildcard loop that follows the first child only
searchByPatternFirstChild(t, node, pattern, index, currentWord, results, k) ==
    IF k > 1 \/ k > Len(t[node].children)
    THEN results
    ELSE searchByPatternHelper(t, Append(node, t[node].children[k]), pattern,
                               index + 1,
                               Append(currentWord, t[node].children[k]),
                               results)

\* the wildcard loop over node.children, from the k-th child on
searchByPatternChildren(t, node, pattern, index, currentWord, results, k) ==
    IF k > Len(t[node].children)
    THEN results
    ELSE LET childChar == t[node].children[k]
             r == searchByPatternHelper(t, Append(node, childChar), pattern,
                                        index + 1,
                                        Append(currentWord, childChar),
                                        results)
         IN searchByPatternChildren(t, node, pattern, index, currentWord,
                                    r, k + 1)

\* the pattern is consumed: the branch succeeds at any node
endOfPatternAnyNode(t, node, currentWord, results) ==
    SetAdd(results, currentWord)

\* the pattern is consumed: the branch succeeds at an end-of-word node
endOfPattern(t, node, currentWord, results) ==
    IF t[node].isEndOfWord THEN SetAdd(results, currentWord) ELSE results

\* index is zero-based as in the code; the result is the results set after
\* the call
searchByPatternHelper(t, node, pattern, index, currentWord, results) ==
    IF index = Len(pattern)
    THEN endOfPattern(t, node, currentWord, results)
    ELSE LET char == pattern[index + 1]
         IN IF char = chUnderscore
            THEN searchByPatternChildren(t, node, pattern, index,
                                         currentWord, results, 1)
            ELSE IF SetHas(t[node].children, char)
                 THEN searchByPatternHelper(t, Append(node, char), pattern,
                                            index + 1,
                                            Append(currentWord, char),
                                            results)
                 ELSE results

searchByPattern(t, pattern) ==
    searchByPatternHelper(t, <<>>, pattern, 0, <<>>, <<>>)

\* ------------------------------------------------------------------------
\* InvertedIndex
\* ------------------------------------------------------------------------
\* index: character -> Set of words; positionIndex: character -> Map of
\* word -> Set of positions, the inner Map as the sequence of its entries.
NewInvertedIndex == [index |-> << >>, positionIndex |-> << >>]

MapHas(m, k) == k \in DOMAIN m
MapSet(m, k, v) == IF k \in DOMAIN m THEN [m EXCEPT ![k] = v]
                   ELSE m @@ (k :> v)

EntryHas(entries, word) == \E j \in 1..Len(entries) : entries[j].word = word

\* the entry of the word gets the one-based position i + 1
EntryAddOneBased(entries, word, i) ==
    LET es == IF EntryHas(entries, word) THEN entries
              ELSE Append(entries, [word |-> word, positions |-> <<>>])
        j == CHOOSE j \in 1..Len(es) : es[j].word = word
    IN [es EXCEPT ![j].positions = SetAdd(@, i + 1)]

\* positionIndex.get(char).get(word).add(i), creating the entry when absent
EntryAdd(entries, word, i) ==
    LET es == IF EntryHas(entries, word) THEN entries
              ELSE Append(entries, [word |-> word, positions |-> <<>>])
        j == CHOOSE j \in 1..Len(es) : es[j].word = word
    IN [es EXCEPT ![j].positions = SetAdd(@, i)]

\* the body of the loop of InvertedIndex.addWord for position i (zero-based)
InvAddChar(inv, word, i) ==
    LET char == word[i + 1]
        idx0 == IF MapHas(inv.index, char) THEN inv.index
                ELSE MapSet(inv.index, char, <<>>)
        idx1 == [idx0 EXCEPT ![char] = SetAdd(@, word)]
        pos0 == IF MapHas(inv.positionIndex, char) THEN inv.positionIndex
                ELSE MapSet(inv.positionIndex, char, <<>>)
        pos1 == [pos0 EXCEPT ![char] = EntryAdd(@, word, i)]
    IN [index |-> idx1, positionIndex |-> pos1]

RECURSIVE InvAddFrom(_, _, _)
InvAddFrom(inv, word, i) ==
    IF i >= Len(word) THEN inv
    ELSE LET inv1 == InvAddChar(inv, word, i)
         IN Then(inv1, InvAddFrom(inv1, word, i + 1))

\* InvertedIndex.addWord(word)
InvAddWord(inv, word) == InvAddFrom(inv, word, 0)

\* Array.from(this.index.get(char) || [])
getWordsWithChar(inv, char) ==
    IF MapHas(inv.index, char) THEN inv.index[char] ELSE <<>>

RECURSIVE EntriesAt(_, _, _)
EntriesAt(entries, position, k) ==
    IF k > Len(entries) THEN <<>>
    ELSE IF SetHas(entries[k].positions, position)
         THEN <<entries[k].word>> \o EntriesAt(entries, position, k + 1)
         ELSE EntriesAt(entries, position, k + 1)

getWordsWithCharAtPosition(inv, char, position) ==
    IF MapHas(inv.positionIndex, char)
    THEN EntriesAt(inv.positionIndex[char], position, 1)
    ELSE <<>>

\* ------------------------------------------------------------------------
\* WordSearchEngine
\* ------------------------------------------------------------------------
\* The engine object: its four fields.
NewEngine == [trie |-> NewTrie,
              invertedIndex |-> NewInvertedIndex,
              words |-> <<>>,
              wordLengthIndex |-> << >>]

\* addWord without the update of the length index
addWordNoLengthIndex(this, word) ==
    [trie |-> insert(this.trie, word),
     invertedIndex |-> InvAddWord(this.invertedIndex, word),
     words |-> SetAdd(this.words, word),
     wordLengthIndex |-> this.wordLengthIndex]

\* WordSearchEngine.addWord(word)
addWord(this, word) ==
    LET length == Len(word)
        wli == IF MapHas(this.wordLengthIndex, length)
               THEN this.wordLengthIndex
               ELSE MapSet(this.wordLengthIndex, length, <<>>)
    IN [trie |-> insert(this.trie, word),
        invertedIndex |-> InvAddWord(this.invertedIndex, word),
        words |-> SetAdd(this.words, word),
        wordLengthIndex |-> [wli EXCEPT ![length] = SetAdd(@, word)]]

\* addWord without its call of trie.insert
addWordStatementNoTrie(this, word, k) ==
    IF k = 1 THEN [this EXCEPT !.words = SetAdd(@, word)]
    ELSE IF k = 2 THEN this
    ELSE IF k = 3
    THEN [this EXCEPT !.invertedIndex = InvAddWord(@, word)]
    ELSE [this EXCEPT !.wordLengthIndex =
              [(IF MapHas(@, Len(word)) THEN @
                ELSE MapSet(@, Len(word), <<>>))
                  EXCEPT ![Len(word)] = SetAdd(@, word)]]

\* the k-th statement of addWord: this.words.add (line 133),
\* this.trie.insert (134), this.invertedIndex.addWord (135) and the update
\* of the length index (138-142)
addWordStatement(this, word, k) ==
    IF k = 1 THEN [this EXCEPT !.words = SetAdd(@, word)]
    ELSE IF k = 2 THEN [this EXCEPT !.trie = insert(@, word)]
    ELSE IF k = 3
    THEN [this EXCEPT !.invertedIndex = InvAddWord(@, word)]
    ELSE [this EXCEPT !.wordLengthIndex =
              [(IF MapHas(@, Len(word)) THEN @
                ELSE MapSet(@, Len(word), <<>>))
                  EXCEPT ![Len(word)] = SetAdd(@, word)]]

RECURSIVE addWords(_, _)
addWords(this, keys) ==
    IF keys = <<>> THEN this
    ELSE LET this1 == addWord(this, Head(keys))
         IN Then(this1, addWords(this1, Tail(keys)))

\* a load that keeps what the engine holds
loadWordsKeep(this, wordsData) == addWords(this, wordsData)

\* WordSearchEngine.loadWords(wordsData); wordsData is given by
\* Object.keys(wordsData), the distinct keys in insertion order
loadWords(this, wordsData) == addWords(NewEngine, wordsData)

\* this.wordLengthIndex.get(length) || new Set()
lengthBucket(this, length) ==
    IF MapHas(this.wordLengthIndex, length)
    THEN this.wordLengthIndex[length] ELSE <<>>

\* an intersection that keeps the second set only
intersectSetsSecond(set1, set2) == set2

\* intersectSets(set1, set2): the items of set1, in its order, that set2 has
intersectSets(set1, set2) == SelectSeq(set1, LAMBDA item : SetHas(set2, item))

\* --- parseQuery ---------------------------------------------------------
\* the expression without its end anchor, /^([A-Za-z_]+)/
IsPatternQueryPrefix(query) ==
    /\ Len(query) > 0
    /\ IsLetter(query[1]) \/ query[1] = chUnderscore

\* /^([A-Za-z_]+)$/
IsPatternQuery(query) ==
    /\ Len(query) > 0
    /\ \A i \in 1..Len(query) : IsLetter(query[i]) \/ query[i] = chUnderscore

RECURSIVE BracketChars(_, _)
\* /\[([A-Za-z])\]/g from position i on, mapped to match[1].toLowerCase()
BracketChars(query, i) ==
    IF i + 2 > Len(query) THEN <<>>
    ELSE IF /\ query[i] = chLBracket
            /\ IsLetter(query[i + 1])
            /\ query[i + 2] = chRBracket
         THEN <<toLowerCaseChar(query[i + 1])>> \o BracketChars(query, i + 3)
         ELSE BracketChars(query, i + 1)

RECURSIVE SkipDigits(_, _)
\* \d+ is greedy: the first position from i on that holds no digit
SkipDigits(query, i) ==
    IF i <= Len(query) /\ IsDigit(query[i])
    THEN SkipDigits(query, i + 1) ELSE i

RECURSIVE SkipSpaces(_, _)
\* \s* is greedy: the first position from i on that holds no white space
SkipSpaces(query, i) ==
    IF i <= Len(query) /\ IsSpace(query[i])
    THEN SkipSpaces(query, i + 1) ELSE i

\* [Ll]etter at position k
LetterWordAt(query, k) ==
    /\ k + 5 <= Len(query)
    /\ query[k] \in {chL, chl}
    /\ SubSeq(query, k + 1, k + 5) = <<che, cht, cht, che, chr>>

\* /(\d+)\s*[Ll]etter/ matches starting at position i
LengthPhraseAt(query, i) ==
    /\ IsDigit(query[i])
    /\ LetterWordAt(query, SkipSpaces(query, SkipDigits(query, i)))

RECURSIVE parseInt(_)
\* parseInt of a string of decimal digits
parseInt(digits) ==
    IF digits = <<>> THEN 0
    ELSE 10 * parseInt(SubSeq(digits, 1, Len(digits) - 1))
         + (digits[Len(digits)] - ch0)

\* parseInt(lengthMatch[1]) of the leftmost match, None without a match
LengthPhrase(query) ==
    LET starts == {i \in 1..Len(query) : LengthPhraseAt(query, i)}
    IN IF starts = {} THEN None
       ELSE LET i == CHOOSE m \in starts : \A n \in starts : m <= n
            IN Some(parseInt(SubSeq(query, i,
                                    SkipDigits(query, i) - 1)))

parseQuery(query) ==
    LET pattern == IF IsPatternQuery(query) THEN Some(toLowerCase(query))
                   ELSE None
        length0 == IF pattern # None THEN Some(Len(pattern[1])) ELSE None
        lengthMatch == LengthPhrase(query)
    IN [pattern |-> pattern,
        requiredChars |-> BracketChars(query, 1),
        length |-> IF lengthMatch # None THEN lengthMatch ELSE length0]

\* --- search -------------------------------------------------------------
RECURSIVE searchByRequiredCharsFrom(_, _, _)
searchByRequiredCharsFrom(this, requiredChars, commonWords) ==
    IF requiredChars = <<>> THEN commonWords
    ELSE LET wordsWithChar ==
                 NewSet(getWordsWithChar(this.invertedIndex,
                                         Head(requiredChars)))
         IN searchByRequiredCharsFrom(this, Tail(requiredChars),
                                      intersectSets(commonWords,
                                                    wordsWithChar))

searchByRequiredChars(this, requiredChars) ==
    IF Len(requiredChars) = 0 THEN <<>>
    ELSE searchByRequiredCharsFrom(
             this, Tail(requiredChars),
             NewSet(getWordsWithChar(this.invertedIndex,
                                     Head(requiredChars))))

\* the two "intersect with existing results, or take over" steps of search
\* (lines 163-175 and 181-192)
narrowResults(results, found) ==
    IF Len(results) > 0
    THEN SetAddAll(<<>>, intersectSets(results, found))
    ELSE SetAddAll(results, found)

\* the default comparison of Array.prototype.sort: by UTF-16 code units
RECURSIVE StrLess(_, _)
StrLess(a, b) ==
    IF b = <<>> THEN FALSE
    ELSE IF a = <<>> THEN TRUE
    ELSE IF Head(a) # Head(b) THEN Head(a) < Head(b)
    ELSE StrLess(Tail(a), Tail(b))

RECURSIVE SortInsert(_, _)
SortInsert(sorted, x) ==
    IF sorted = <<>> THEN <<x>>
    ELSE IF StrLess(x, Head(sorted)) THEN <<x>> \o sorted
    ELSE <<Head(sorted)>> \o SortInsert(Tail(sorted), x)

\* the results in insertion order, unsorted
sortNone(xs) == xs

RECURSIVE sort(_)
\* Array.from(results).sort()
sort(xs) ==
    IF xs = <<>> THEN <<>>
    ELSE SortInsert(sort(SubSeq(xs, 1, Len(xs) - 1)), xs[Len(xs)])

\* if (x) for a string or a number that may be null
Truthy(opt, zero) == opt # None /\ opt[1] # zero

search(this, query) ==
    LET parsedQuery == parseQuery(query)
        r1 == IF Truthy(parsedQuery.pattern, <<>>)
              THEN SetAddAll(<<>>, searchByPattern(this.trie,
                                                   parsedQuery.pattern[1]))
              ELSE <<>>
        r2 == IF Len(parsedQuery.requiredChars) > 0
              THEN narrowResults(r1, searchByRequiredChars(
                                         this, parsedQuery.requiredChars))
              ELSE r1
        r3 == IF Truthy(parsedQuery.length, 0)
              THEN narrowResults(r2, lengthBucket(this,
                                                  parsedQuery.length[1]))
              ELSE r2
    IN sort(r3)

\* --- advancedSearch -----------------------------------------------------
\* word.endsWith(suffix)
endsWith(word, suffix) ==
    /\ Len(suffix) <= Len(word)
    /\ SubSeq(word, Len(word) - Len(suffix) + 1, Len(word)) = suffix

searchByEnding(this, suffix) ==
    SelectSeq(this.words, LAMBDA word : endsWith(word, suffix))

\* the word set one constraint resolves to; a Map of characters has no
\* entry for a key that is not one character
charWords(inv, value) ==
    IF Len(value) = 1 THEN getWordsWithChar(inv, value[1]) ELSE <<>>

\* the words that hold the character, at whatever position
charWordsAtAny(inv, char, position) == charWords(inv, char)

charWordsAt(inv, char, position) ==
    IF Len(char) = 1
    THEN getWordsWithCharAtPosition(inv, char[1], position) ELSE <<>>

\* a constraint whose type is rejected: no word passes
otherConstraintRejects(results, constraint) == <<>>

\* a constraint of a type no branch of the loop names: results is left as is
otherConstraint(results, constraint) == results

\* one iteration of the loop of advancedSearch; the numeric constraint.value
\* of a length constraint is the field `number` (TLC cannot compare records
\* that hold a number and a string under one field name)
applyConstraint(this, results, constraint) ==
    IF constraint.type = "length"
    THEN intersectSets(results, lengthBucket(this, constraint.number))
    ELSE IF constraint.type = "starts_with"
    THEN intersectSets(results, NewSet(TrieSearch(this.trie,
                                                  constraint.value)))
    ELSE IF constraint.type = "ends_with"
    THEN intersectSets(results, searchByEnding(this, constraint.value))
    ELSE IF constraint.type = "contains_at_position"
    THEN intersectSets(results,
                       NewSet(charWordsAt(this.invertedIndex,
                                          constraint.char,
                                          constraint.position)))
    ELSE IF constraint.type = "contains"
    THEN intersectSets(results, NewSet(charWords(this.invertedIndex,
                                                 constraint.value)))
    ELSE otherConstraint(results, constraint)

RECURSIVE advancedSearchFrom(_, _, _)
advancedSearchFrom(this, constraints, results) ==
    IF constraints = <<>> THEN results
    ELSE advancedSearchFrom(this, Tail(constraints),
                            applyConstraint(this, results,
                                            Head(constraints)))

advancedSearch(this, constraints) ==
    sort(advancedSearchFrom(this, constraints, NewSet(this.words)))

\* --- getSuggestions -----------------------------------------------------
\* String.prototype.includes for one character
includes(s, c) == \E i \in 1..Len(s) : s[i] = c

\* partialQuery.replace(/[^A-Za-z_]/g, '')
stripToPattern(partialQuery) ==
    SelectSeq(partialQuery, LAMBDA c : IsLetter(c) \/ c = chUnderscore)

\* the whole array, not cut at end
sliceAll(xs, end) == xs

\* Array.prototype.slice(0, end)
slice(xs, end) == SubSeq(xs, 1, IF end < Len(xs) THEN end ELSE Len(xs))

\* the suggestions as collected, a word of both sources twice
uniqueSuggestionsKept(suggestions) == suggestions

\* [...new Set(suggestions)]
uniqueSuggestions(suggestions) == NewSet(suggestions)

\* the pattern suggestions (lines 304-310); the pattern is not lowercased
patternSuggestions(this, partialQuery) ==
    IF includes(partialQuery, chUnderscore)
    THEN LET pattern == stripToPattern(partialQuery)
         IN IF Len(pattern) > 0
            THEN slice(searchByPattern(this.trie, pattern), 5)
            ELSE <<>>
    ELSE <<>>

\* the length suggestions (lines 313-318)
lengthSuggestions(this, partialQuery) ==
    LET lengthMatch == LengthPhrase(partialQuery)
    IN IF lengthMatch # None
       THEN slice(lengthBucket(this, lengthMatch[1]), 5)
       ELSE <<>>

\* WordSearchEngine.getSuggestions(partialQuery): the method has one
\* parameter; further arguments of a call are not read
getSuggestions(this, partialQuery) ==
    slice(uniqueSuggestions(patternSuggestions(this, partialQuery)
                            \o lengthSuggestions(this, partialQuery)),
          10)

\* ------------------------------------------------------------------------
\* The request handler of /api/search (src/DEPLOYMENT.md, lines 356-480)
\* ------------------------------------------------------------------------
\* !query: undefined (None) or the empty string
queryMissingUndefinedOnly(query) == query = None

queryMissing(query) == ~Truthy(query, <<>>)

\* results.filter(word => word.length === 5)
filterFive(xs) == SelectSeq(xs, LAMBDA word : Len(word) = 5)

\* --- parseAdvancedQuery -------------------------------------------------
\* Positions are one-based; a position of 0 stands for "no match".
\* the position after the literal lit at position i
AfterLit(q, i, lit) ==
    IF /\ i # 0
       /\ i + Len(lit) - 1 <= Len(q)
       /\ SubSeq(q, i, i + Len(lit) - 1) = lit
    THEN i + Len(lit) ELSE 0

\* the position after \s+ at position i
AfterSpaces(q, i) ==
    IF i # 0 /\ SkipSpaces(q, i) > i THEN SkipSpaces(q, i) ELSE 0

\* the position after [Xx]stem followed by s? at position i; the optional s
\* is taken when it is there (what follows it in each phrase is \s+)
AfterKeyword(q, i, initials, stem) ==
    LET j == IF i <= Len(q) /\ q[i] \in initials
             THEN AfterLit(q, i + 1, stem) ELSE 0
    IN IF j # 0 /\ j <= Len(q) /\ q[j] = 115 THEN j + 1 ELSE j

\* the position of the letter captured by a match that starts at i (0
\* without a match), for /[Ss]tarts?\s+with\s+([A-Za-z])/ and
\* /[Ee]nds?\s+with\s+([A-Za-z])/
WithLetterAt(q, i, initials, stem) ==
    LET n == AfterSpaces(q, AfterLit(q, AfterSpaces(q,
                 AfterKeyword(q, i, initials, stem)), <<119, 105, 116, 104>>))
    IN IF n # 0 /\ n <= Len(q) /\ IsLetter(q[n]) THEN n ELSE 0

StartsWithLetterAt(q, i) == WithLetterAt(q, i, {83, 115}, <<116, 97, 114, 116>>)
EndsWithLetterAt(q, i) == WithLetterAt(q, i, {69, 101}, <<110, 100>>)

\* the same for /[Cc]ontains?\s+([A-Za-z])/
ContainsLetterAt(q, i) ==
    LET n == AfterSpaces(q, AfterKeyword(q, i, {67, 99}, <<111, 110, 116, 97, 105, 110>>))
    IN IF n # 0 /\ n <= Len(q) /\ IsLetter(q[n]) THEN n ELSE 0

\* (?:st|nd|rd|th) at position i
AfterOrdinalSuffix(q, i) ==
    IF /\ i # 0
       /\ i + 1 <= Len(q)
       /\ SubSeq(q, i, i + 1) \in {<<115, 116>>, <<110, 100>>, <<114, 100>>, <<116, 104>>}
    THEN i + 2 ELSE 0

\* the same for /(\d+)(?:st|nd|rd|th)\s+letter\s+is\s+([A-Za-z])/
PositionLetterAt(q, i) ==
    LET n == IF i <= Len(q) /\ IsDigit(q[i])
             THEN AfterSpaces(q, AfterLit(q, AfterSpaces(q,
                      AfterLit(q, AfterSpaces(q,
                          AfterOrdinalSuffix(q, SkipDigits(q, i))),
                          <<108, 101, 116, 116, 101, 114>>)), <<105, 115>>))
             ELSE 0
    IN IF n # 0 /\ n <= Len(q) /\ IsLetter(q[n]) THEN n ELSE 0

LastMatch(starts) == CHOOSE m \in starts : \A n \in starts : m >= n

\* String.prototype.match without the g flag: the leftmost match
FirstMatch(starts) == CHOOSE m \in starts : \A n \in starts : m <= n

\* the constraints of one phrase type: none or one
lengthConstraint(query) ==
    LET lengthMatch == LengthPhrase(query)
    IN IF lengthMatch # None
       THEN <<[type |-> "length", number |-> lengthMatch[1]]>>
       ELSE <<>>

startsWithConstraint(query) ==
    LET starts == {i \in 1..Len(query) : StartsWithLetterAt(query, i) # 0}
    IN IF starts # {}
       THEN <<[type |-> "starts_with",
               value |-> <<toLowerCaseChar(
                   query[StartsWithLetterAt(query, FirstMatch(starts))])>>]>>
       ELSE <<>>

endsWithConstraint(query) ==
    LET starts == {i \in 1..Len(query) : EndsWithLetterAt(query, i) # 0}
    IN IF starts # {}
       THEN <<[type |-> "ends_with",
               value |-> <<toLowerCaseChar(
                   query[EndsWithLetterAt(query, FirstMatch(starts))])>>]>>
       ELSE <<>>

containsConstraint(query) ==
    LET starts == {i \in 1..Len(query) : ContainsLetterAt(query, i) # 0}
    IN IF starts # {}
       THEN <<[type |-> "contains",
               value |-> <<toLowerCaseChar(
                   query[ContainsLetterAt(query, FirstMatch(starts))])>>]>>
       ELSE <<>>

positionConstraint(query) ==
    LET starts == {i \in 1..Len(query) : PositionLetterAt(query, i) # 0}
    IN IF starts # {}
       THEN LET i == FirstMatch(starts)
            IN <<[type |-> "contains_at_position",
                  char |-> <<toLowerCaseChar(query[PositionLetterAt(query, i)])>>,
                  position |-> parseInt(SubSeq(query, i,
                                   SkipDigits(query, i) - 1)) - 1]>>
       ELSE <<>>

parseAdvancedQuery(query) ==
    lengthConstraint(query) \o startsWithConstraint(query)
    \o endsWithConstraint(query) \o containsConstraint(query)
    \o positionConstraint(query)

\* ------------------------------------------------------------------------
\* The query cache (optimizations.js)
\* ------------------------------------------------------------------------
\* queryCache is a Map: entries [query, results, timestamp] in the order
\* their keys were inserted; times are milliseconds, as Date.now() gives
CACHE_TTL == 5 * 60 * 1000

\* the bound on results.results.length (line 55) and on queryCache.size
\* (line 62)
CacheableBelow == 100
CacheLimit == 100

CacheIndex(map, query) ==
    IF \E i \in 1..Len(map) : map[i].query = query
    THEN CHOOSE i \in 1..Len(map) : map[i].query = query
    ELSE 0

\* Map.set: the value of a key that is there is replaced where it is, a new
\* key goes last
CacheSet(map, entry) ==
    IF CacheIndex(map, entry.query) # 0
    THEN [map EXCEPT ![CacheIndex(map, entry.query)] = entry]
    ELSE Append(map, entry)

CacheDelete(map, query) == SelectSeq(map, LAMBDA e : e.query # query)

\* results && results.results && results.results.length > 0 &&
\* results.results.length < 100
isCacheable(results) ==
    /\ results # None
    /\ results[1].results # None
    /\ Len(results[1].results[1]) > 0
    /\ Len(results[1].results[1]) < CacheableBelow

deleteLastKey(map) == CacheDelete(map, map[Len(map)].query)

\* queryCache.delete(queryCache.keys().next().value)
deleteFirstKey(map) == CacheDelete(map, map[1].query)

\* cacheResults(query, results) at time time: the cache it leaves
cacheResults(cache, query, results, time) ==
    IF isCacheable(results)
    THEN LET set == CacheSet(cache, [query |-> query,
                                   results |-> results[1],
                                   timestamp |-> time])
         IN IF Len(set) > CacheLimit THEN deleteFirstKey(set) ELSE set
    ELSE cache

neverExpired(age) == FALSE

\* Date.now() - cached.timestamp > CACHE_TTL
isExpired(age) == age > CACHE_TTL

\* getCachedResults(query) at time time: the cache it leaves and what it
\* returns (None for null)
getCachedResults(cache, query, time) ==
    LET i == CacheIndex(cache, query)
    IN IF i = 0
       THEN [cache |-> cache, value |-> None]
       ELSE IF isExpired(time - cache[i].timestamp)
       THEN [cache |-> CacheDelete(cache, query), value |-> None]
       ELSE [cache |-> cache, value |-> Some(cache[i].results)]

\* cacheResults for queries[lo], ..., queries[hi] in turn: the first half
\* of the calls, then the second half on the cache the first half leaves
RECURSIVE cacheFrom(_, _, _, _, _, _)
cacheFrom(cache, queries, lo, hi, results, time) ==
    IF lo > hi THEN cache
    ELSE IF lo = hi THEN cacheResults(cache, queries[lo], results, time)
    ELSE LET mid == (lo + hi) \div 2
             cache1 == cacheFrom(cache, queries, lo, mid, results, time)
         IN Then(cache1,
                 cacheFrom(cache1, queries, mid + 1, hi, results, time))

cacheAll(cache, queries, results, time) ==
    cacheFrom(cache, queries, 1, Len(queries), results, time)

\* ------------------------------------------------------------------------
\* State
\* ------------------------------------------------------------------------
\* the four fields of the engine, then the call being made on it and what
\* the call returns; the call of loadWords keeps, as `before`, the words the
\* engine held when the call was made
VARIABLES trie, invertedIndex, words, wordLengthIndex, call, result

\* the module-level flag of the request handler; its searchEngine is the
\* engine above, null until the first initialisation (a handler does not
\* read it before)
VARIABLE isInitialized

\* the history of the handler: the dictionaries of the loadWords calls that
\* initializeSearchEngine has completed, and whether the initialisation of
\* the previous request threw
VARIABLES loads, lastFailed

\* the query cache of optimizations.js, the clock that Date.now() reads,
\* and, as history, what cacheResults has stored: for each query the entry
\* it set last, kept when the cache drops it
VARIABLES queryCache, now, stored

\* the search page (pages/index.js): its state (pageResults is the state
\* `results`), the debounce timeout of its effect with the criteria its
\* handleSearch has closed over (None when no timeout is pending), and the
\* /api/search requests it is waiting for, in the order they were sent, each
\* with the criteria of the handleSearch call that sent it and whether the
\* criteria have stayed the same since; as history, whether the request for
\* the criteria as they are was answered with an error
VARIABLES knownLetters, knownLettersWithoutPos, excludedLetters,
          pageResults, resultCount, isLoading, timeoutId, inflight,
          latestFailed

engineVars == <<trie, invertedIndex, words, wordLengthIndex>>
handlerVars == <<isInitialized, loads, lastFailed>>
cacheVars == <<queryCache, now, stored>>
pageVars == <<knownLetters, knownLettersWithoutPos, excludedLetters,
              pageResults, resultCount, isLoading, timeoutId, inflight,
              latestFailed>>
outsideVars == <<handlerVars, cacheVars, pageVars>>
vars == <<trie, invertedIndex, words, wordLengthIndex, call, result,
          outsideVars>>

engine == [trie |-> trie,
           invertedIndex |-> invertedIndex,
           words |-> words,
           wordLengthIndex |-> wordLengthIndex]

\* ------------------------------------------------------------------------
\* Inputs
\* ------------------------------------------------------------------------
WordChars == {cha, chb}

Strings(chars, lo, hi) == UNION {[1..n -> chars] : n \in lo..hi}

\* the keys of a dictionary: non-empty lowercase words, among them a word
\* that is a prefix of others, words of one length that differ in one
\* position, and words that hold a letter at two positions
Words ==
    { <<cha>>, <<chb>>,
      <<cha, chb>>, <<chb, cha>>, <<chb, chb>>,
      <<cha, chb, cha>> }

Distinct(s) == \A i, j \in 1..Len(s) : i # j => s[i] # s[j]

\* Object.keys(wordsData): distinct keys
WordLists == {s \in Strings(Words, 0, MaxWords) : Distinct(s)}

\* patterns handed to Trie.searchByPattern
PatternChars == {cha, chb, chUnderscore}
Patterns == Strings(PatternChars, 0, MaxPatternLen)

\* query strings: up to MaxTokens pieces
QueryTokens ==
    { <<cha>>, <<chB>>, <<chUnderscore>>,
      <<chLBracket, cha, chRBracket>>,
      <<chComma, chSpace, chLBracket, chB, chRBracket>>,
      <<ch2, chSpace, chl, che, cht, cht, che, chr>> }

RECURSIVE TokenStrings(_)
TokenStrings(n) ==
    IF n = 0 THEN {<<>>}
    ELSE LET shorter == TokenStrings(n - 1)
         IN shorter \cup {q \o tok : q \in shorter, tok \in QueryTokens}

Queries == TokenStrings(MaxTokens)

\* constraints of advancedSearch
Constraints ==
    {[type |-> "length", number |-> n] : n \in 1..MaxPatternLen}
    \cup {[type |-> "starts_with", value |-> v] : v \in {<<>>, <<cha>>}}
    \cup {[type |-> "ends_with", value |-> v] : v \in {<<chb>>}}
    \cup {[type |-> "contains_at_position", char |-> <<cha>>, position |-> 0],
          [type |-> "contains_at_position", char |-> <<chb>>, position |-> 1]}
    \cup {[type |-> "contains", value |-> <<chb>>]}
    \cup {[type |-> "regex", value |-> <<cha>>]}

ConstraintLists == Strings(Constraints, 0, MaxConstraints)

\* ------------------------------------------------------------------------
\* Operations
\* ------------------------------------------------------------------------
\* JavaScript runs one call at a time: a call starts when no call is being
\* made, and its caller takes the result (Return) before the next call.
Idle == [op |-> "idle"]

Init ==
    /\ trie = NewEngine.trie
    /\ invertedIndex = NewEngine.invertedIndex
    /\ words = NewEngine.words
    /\ wordLengthIndex = NewEngine.wordLengthIndex
    /\ call = Idle
    /\ result = <<>>
    /\ isInitialized = FALSE
    /\ loads = <<>>
    /\ lastFailed = FALSE
    /\ queryCache = <<>>
    /\ now = 0
    /\ stored = <<>>
    /\ knownLetters = <<<<>>, <<>>, <<>>, <<>>, <<>>>>
    /\ knownLettersWithoutPos = <<>>
    /\ excludedLetters = <<>>
    /\ pageResults = <<>>
    /\ resultCount = 0
    /\ isLoading = FALSE
    /\ timeoutId = Some([knownLetters |-> <<<<>>, <<>>, <<>>, <<>>, <<>>>>,
                         knownLettersWithoutPos |-> <<>>,
                         excludedLetters |-> <<>>])
    /\ inflight = <<>>
    /\ latestFailed = FALSE

SetEngine(e) ==
    /\ trie' = e.trie
    /\ invertedIndex' = e.invertedIndex
    /\ words' = e.words
    /\ wordLengthIndex' = e.wordLengthIndex

LoadWords(wordsData) ==
    /\ call = Idle
    /\ SetEngine(loadWords(engine, wordsData))
    /\ call' = [op |-> "loadWords", arg |-> wordsData, before |-> words]
    /\ result' = <<>>
    /\ UNCHANGED outsideVars

AddWord(word) ==
    /\ call = Idle
    /\ SetHas(words, word) \/ Len(words) < MaxWords
    /\ SetEngine(addWord(engine, word))
    /\ call' = [op |-> "addWord", arg |-> word]
    /\ result' = <<>>
    /\ UNCHANGED outsideVars

Search(query) ==
    /\ call = Idle
    /\ call' = [op |-> "search", arg |-> query]
    /\ result' = search(engine, query)
    /\ UNCHANGED engineVars
    /\ UNCHANGED outsideVars

\* advancedSearch narrowing this.words itself instead of a copy of it
AdvancedSearchInPlace(constraints) ==
    /\ call = Idle
    /\ call' = [op |-> "advancedSearch", arg |-> constraints]
    /\ result' = advancedSearch(engine, constraints)
    /\ words' = advancedSearchFrom(engine, constraints, words)
    /\ UNCHANGED <<trie, invertedIndex, wordLengthIndex>>
    /\ UNCHANGED outsideVars

AdvancedSearch(constraints) ==
    /\ call = Idle
    /\ call' = [op |-> "advancedSearch", arg |-> constraints]
    /\ result' = advancedSearch(engine, constraints)
    /\ UNCHANGED engineVars
    /\ UNCHANGED outsideVars

SearchByPattern(pattern) ==
    /\ call = Idle
    /\ call' = [op |-> "searchByPattern", arg |-> pattern]
    /\ result' = searchByPattern(trie, pattern)
    /\ UNCHANGED engineVars
    /\ UNCHANGED outsideVars

GetWordsWithChar(char) ==
    /\ call = Idle
    /\ call' = [op |-> "getWordsWithChar", arg |-> char]
    /\ result' = getWordsWithChar(invertedIndex, char)
    /\ UNCHANGED engineVars
    /\ UNCHANGED outsideVars

GetWordsWithCharAtPosition(char, position) ==
    /\ call = Idle
    /\ call' = [op |-> "getWordsWithCharAtPosition", arg |-> char,
                position |-> position]
    /\ result' = getWordsWithCharAtPosition(invertedIndex, char, position)
    /\ UNCHANGED engineVars
    /\ UNCHANGED outsideVars

\* loadWords statement by statement. The call is synchronous: from its
\* first statement to its return no other call starts (op is "loading").
LoadWordsBegin(wordsData) ==
    /\ call = Idle
    /\ SetEngine(NewEngine)
    /\ call' = [op |-> "loading", arg |-> wordsData, i |-> 1, statement |-> 1]
    /\ result' = <<>>
    /\ UNCHANGED outsideVars

\* the next statement of addWord(wordsData[i])
LoadWordsStep ==
    /\ call.op = "loading"
    /\ call.i <= Len(call.arg)
    /\ SetEngine(addWordStatement(engine, call.arg[call.i], call.statement))
    /\ call' = IF call.statement < 4
               THEN [call EXCEPT !.statement = @ + 1]
               ELSE [call EXCEPT !.i = @ + 1, !.statement = 1]
    /\ result' = <<>>
    /\ UNCHANGED outsideVars

\* the loop is over: loadWords returns
LoadWordsEnd ==
    /\ call.op = "loading"
    /\ call.i > Len(call.arg)
    /\ call' = [op |-> "loadWords", arg |-> call.arg]
    /\ UNCHANGED <<engineVars, result>>
    /\ UNCHANGED outsideVars

\* --- handler ------------------------------------------------------------
\* the body of a 200 response (lines 396-419) without its timestamp;
\* `invoked` lists the methods of the engine the handler has called
handlerResponse(this, req) ==
    LET query == req.query[1]
        found == IF req.advanced
                 THEN advancedSearch(this, parseAdvancedQuery(query))
                 ELSE search(this, query)
        results == filterFive(found)
    IN [status |-> 200,
        query |-> query,
        results |-> results,
        count |-> Len(results),
        suggestions |-> filterFive(getSuggestions(this, query)),
        invoked |-> <<IF req.advanced THEN "advancedSearch" ELSE "search",
                      "getSuggestions">>]

errorResponse(status) == [status |-> status, invoked |-> <<>>]

\* initializeSearchEngine() (lines 362-379) on the module state: the flag and
\* the engine it leaves, whether its loadWords call completed, and whether
\* it threw. dictionary is what require('../../words_dictionary_5.json')
\* gives: the keys of the file, or None when the require, or loadWords on
\* what it gave, throws (the flag is set after both).
initializeSearchEngineFlagFirst(initialized, this, dictionary) ==
    IF initialized \/ dictionary = None
    THEN [isInitialized |-> TRUE, searchEngine |-> this,
          loaded |-> FALSE, threw |-> ~initialized]
    ELSE [isInitialized |-> TRUE,
          searchEngine |-> loadWords(NewEngine, dictionary[1]),
          loaded |-> TRUE, threw |-> FALSE]

initializeSearchEngine(initialized, this, dictionary) ==
    IF initialized
    THEN [isInitialized |-> TRUE, searchEngine |-> this,
          loaded |-> FALSE, threw |-> FALSE]
    ELSE IF dictionary = None
    THEN [isInitialized |-> FALSE, searchEngine |-> this,
          loaded |-> FALSE, threw |-> TRUE]
    ELSE [isInitialized |-> TRUE,
          searchEngine |-> loadWords(NewEngine, dictionary[1]),
          loaded |-> TRUE, threw |-> FALSE]

\* handler(req, res); req.query and req.advanced are the fields of
\* req.query (GET) or req.body (POST). initializeSearchEngine does not
\* wait for anything, so the handler resumes after its await before any
\* other request is taken: a request is one step. The call keeps whether
\* the request completed a loadWords call, whether its initialisation
\* threw, and whether it follows a request whose initialisation threw.
Handler(req, dictionary) ==
    /\ call = Idle
    /\ IF req.method \notin {"GET", "POST"}
       THEN /\ call' = [op |-> "handler", req |-> req,
                        loaded |-> FALSE, threw |-> FALSE,
                        afterFailure |-> lastFailed]
            /\ result' = errorResponse(405)
            /\ lastFailed' = FALSE
            /\ UNCHANGED <<engineVars, isInitialized, loads>>
            /\ UNCHANGED <<cacheVars, pageVars>>
       ELSE LET init == initializeSearchEngine(isInitialized, engine,
                                               dictionary)
            IN /\ call' = [op |-> "handler", req |-> req,
                           loaded |-> init.loaded, threw |-> init.threw,
                           afterFailure |-> lastFailed]
               /\ SetEngine(init.searchEngine)
               /\ isInitialized' = init.isInitialized
               /\ loads' = IF init.loaded
                           THEN Append(loads, dictionary[1])
                           ELSE loads
               /\ lastFailed' = init.threw
               /\ result' = IF init.threw
                            THEN errorResponse(500)
                            ELSE IF queryMissing(req.query)
                            THEN errorResponse(400)
                            ELSE handlerResponse(init.searchEngine, req)
               /\ UNCHANGED <<cacheVars, pageVars>>

\* parseAdvancedQuery on a query written as a list of phrases joined by ", "
ParseAdvancedQueryCall(phrases, query) ==
    /\ call = Idle
    /\ call' = [op |-> "parseAdvancedQuery", arg |-> query,
                phrases |-> phrases]
    /\ result' = parseAdvancedQuery(query)
    /\ UNCHANGED engineVars
    /\ UNCHANGED outsideVars

ParseQueryCall(query) ==
    /\ call = Idle
    /\ call' = [op |-> "parseQuery", arg |-> query]
    /\ result' = parseQuery(query)
    /\ UNCHANGED engineVars
    /\ UNCHANGED outsideVars

\* a caller may pass a second argument, which the method does not read
GetSuggestions(partialQuery, limit) ==
    /\ call = Idle
    /\ call' = [op |-> "getSuggestions", arg |-> partialQuery,
                limit |-> limit]
    /\ result' = getSuggestions(engine, partialQuery)
    /\ UNCHANGED engineVars
    /\ UNCHANGED outsideVars

TrieSearchCall(prefix) ==
    /\ call = Idle
    /\ call' = [op |-> "trieSearch", arg |-> prefix]
    /\ result' = TrieSearch(trie, prefix)
    /\ UNCHANGED engineVars
    /\ UNCHANGED outsideVars

\* --- query cache -----------------------------------------------------------
CacheResults(query, results) ==
    /\ call = Idle
    /\ call' = [op |-> "cacheResults", arg |-> query, results |-> results]
    /\ result' = <<>>
    /\ queryCache' = cacheResults(queryCache, query, results, now)
    /\ stored' = IF isCacheable(results)
                 THEN CacheSet(stored, [query |-> query,
                                      results |-> results[1],
                                      timestamp |-> now])
                 ELSE stored
    /\ UNCHANGED <<engineVars, handlerVars, pageVars, now>>

\* cacheResults called for each of a list of queries in turn, with one
\* response and within one millisecond
CacheResultsAll(queries, results) ==
    /\ call = Idle
    /\ call' = [op |-> "cacheResultsAll", arg |-> queries,
                results |-> results]
    /\ result' = <<>>
    /\ queryCache' = cacheAll(queryCache, queries, results, now)
    /\ stored' = IF isCacheable(results)
                 THEN SelectSeq(stored, LAMBDA e :
                          \A i \in 1..Len(queries) : e.query # queries[i])
                      \o [i \in 1..Len(queries) |->
                             [query |-> queries[i], results |-> results[1],
                              timestamp |-> now]]
                 ELSE stored
    /\ UNCHANGED <<engineVars, handlerVars, pageVars, now>>

GetCachedResults(query) ==
    LET got == getCachedResults(queryCache, query, now)
    IN /\ call = Idle
       /\ call' = [op |-> "getCachedResults", arg |-> query]
       /\ result' = got.value
       /\ queryCache' = got.cache
       /\ UNCHANGED <<engineVars, handlerVars, pageVars, now, stored>>

\* time passes between calls: up to MaxDrift milliseconds, CACHE_TTL
\* milliseconds once, or both
Tick(ms) ==
    /\ call = Idle
    /\ (now + ms) \div CACHE_TTL <= 1
    /\ (now + ms) % CACHE_TTL <= MaxDrift
    /\ now' = now + ms
    /\ UNCHANGED <<engineVars, handlerVars, pageVars, call, result, queryCache,
                   stored>>

\* the caller takes the result of a call that has returned
Return ==
    /\ call # Idle
    /\ call.op # "loading"
    /\ call' = Idle
    /\ result' = <<>>
    /\ UNCHANGED engineVars
    /\ UNCHANGED outsideVars

\* building the engine
Build ==
    \/ \E wordsData \in WordLists : LoadWords(wordsData)
    \/ \E word \in Words : AddWord(word)
    \/ Return

\* the engine as it is built
SpecBuild == Init /\ [][Build]_vars

\* the engine loaded statement by statement and queried
ProbeQueries ==
    { <<chUnderscore>>, <<cha, chUnderscore>>, <<chB>>,
      <<chLBracket, cha, chRBracket>>,
      <<ch2, chSpace, chl, che, cht, cht, che, chr>> }

ProbeConstraintLists ==
    {c \in ConstraintLists : Len(c) <= 1}

ProbeSuggestQueries ==
    { <<chUnderscore>>, <<cha, chUnderscore>>,
      <<ch2, chSpace, chl, che, cht, cht, che, chr>> }

NextLoad ==
    \/ \E wordsData \in WordLists : LoadWordsBegin(wordsData)
    \/ LoadWordsStep
    \/ LoadWordsEnd
    \/ \E word \in Words : AddWord(word)
    \/ \E query \in ProbeQueries : Search(query)
    \/ \E constraints \in ProbeConstraintLists : AdvancedSearch(constraints)
    \/ \E partialQuery \in ProbeSuggestQueries :
          GetSuggestions(partialQuery, 10)
    \/ Return

SpecLoad == Init /\ [][NextLoad]_vars

\* parseQuery on its own
NextParse ==
    \/ \E query \in Queries : ParseQueryCall(query)
    \/ Return

SpecParse == Init /\ [][NextParse]_vars

\* the engine under search
Next ==
    \/ Build
    \/ \E query \in Queries : Search(query)

Spec == Init /\ [][Next]_vars

\* the engine under advancedSearch
NextAdvanced ==
    \/ Build
    \/ \E constraints \in ConstraintLists : AdvancedSearch(constraints)

SpecAdvanced == Init /\ [][NextAdvanced]_vars

\* the Trie of the engine
NextTrie ==
    \/ Build
    \/ \E pattern \in Patterns : SearchByPattern(pattern)

SpecTrie == Init /\ [][NextTrie]_vars

\* the InvertedIndex of the engine
NextIndex ==
    \/ Build
    \/ \E char \in WordChars \cup {chc} : GetWordsWithChar(char)
    \/ \E char \in WordChars \cup {chc}, position \in 0..MaxPosition :
          GetWordsWithCharAtPosition(char, position)

SpecIndex == Init /\ [][NextIndex]_vars

\* dictionaries whose keys hold uppercase letters
CaseWords == { <<chB>>, <<chB, cha>>, <<cha>> }

CaseLists == {s \in Strings(CaseWords, 0, 2) : Distinct(s)}

NextCase ==
    \/ \E wordsData \in CaseLists : LoadWords(wordsData)
    \/ \E query \in ProbeQueries : Search(query)
    \/ Return

SpecCase == Init /\ [][NextCase]_vars

\* prefixes handed to Trie.search
Prefixes == Strings(WordChars, 0, MaxPatternLen) \cup {<<chc>>, <<cha, chc>>}

\* the lookups of the trie and of the inverted index next to the two
\* searches of the engine
NextLookup ==
    \/ Build
    \/ \E prefix \in Prefixes : TrieSearchCall(prefix)
    \/ \E pattern \in Patterns : SearchByPattern(pattern)
    \/ \E char \in WordChars \cup {chc} : GetWordsWithChar(char)
    \/ \E char \in WordChars \cup {chc}, position \in 0..MaxPosition :
          GetWordsWithCharAtPosition(char, position)
    \/ \E query \in ProbeQueries : Search(query)
    \/ \E constraints \in ProbeConstraintLists : AdvancedSearch(constraints)

SpecLookup == Init /\ [][NextLookup]_vars

\* the engine under getSuggestions: dictionaries with more than five words
\* of one length, and one with a word that ends in "letter"
Waa == <<cha, cha>>
Wab == <<cha, chb>>
Wba == <<chb, cha>>
Wbb == <<chb, chb>>
Wac == <<cha, chc>>
Wca == <<chc, cha>>
Waletter == <<cha, chl, che, cht, cht, che, chr>>

SuggestLists ==
    { <<Waa, Wab, Wba, Wbb, Wac, Wca>>,
      <<Wca, Wac, Wbb, Wba, Wab, Waa>>,
      <<Wab, Waletter>>,
      <<Waletter, Wba, Wab>> }

Q2letter == <<ch2, chSpace, chl, che, cht, cht, che, chr>>
Q7letter == <<ch7, chSpace, chl, che, cht, cht, che, chr>>

SuggestQueries ==
    { <<>>,
      <<cha, chb>>,
      <<chUnderscore>>,
      <<chUnderscore, chUnderscore>>,
      <<cha, chUnderscore>>,
      <<chB, chUnderscore>>,
      <<chUnderscore, chComma, chSpace, chUnderscore>>,
      Q2letter,
      Q7letter,
      <<chUnderscore>> \o Q7letter,
      <<chUnderscore>> \o Q2letter,
      <<chUnderscore, chUnderscore, chSpace>> \o Q2letter }

SuggestLimits == {0, 1, 5, 10}

NextSuggest ==
    \/ Build
    \/ \E wordsData \in SuggestLists : LoadWords(wordsData)
    \/ \E partialQuery \in SuggestQueries, limit \in SuggestLimits :
          GetSuggestions(partialQuery, limit)

SpecSuggest == Init /\ [][NextSuggest]_vars

\* ------------------------------------------------------------------------
\* The scenario of the test vocabulary
\* ------------------------------------------------------------------------
Wwords == <<119, 111, 114, 100, 115>>   \* "words"
Wworks == <<119, 111, 114, 107, 115>>   \* "works"
Wwants == <<119, 97, 110, 116, 115>>    \* "wants"
Wabout == <<97, 98, 111, 117, 116>>     \* "about"
Wworld == <<119, 111, 114, 108, 100>>   \* "world"

ScenarioWords == {Wwords, Wworks, Wwants, Wabout, Wworld}

\* the dictionaries of the scenario words, in every order of their keys
ScenarioLists ==
    {s \in [1..Cardinality(ScenarioWords) -> ScenarioWords] : Distinct(s)}

Qw___s == <<119, 95, 95, 95, 115>>         \* "w___s"
ScenarioQueries ==
    { Qw___s,
      <<87, 95, 95, 95, 83>>,              \* "W___S"
      <<95, 95, 95, 95, 95>>,              \* "_____"
      <<119, 111, 95, 95, 95>> }           \* "wo___"

NextScenario ==
    \/ \E wordsData \in ScenarioLists : LoadWords(wordsData)
    \/ \E query \in ScenarioQueries : Search(query)
    \/ Return

SpecScenario == Init /\ [][NextScenario]_vars

\* ------------------------------------------------------------------------
\* The phrases of an advanced query
\* ------------------------------------------------------------------------
MaxPhrases == 3

\* phrases as the README and the comments of parseAdvancedQuery write them,
\* each with its type, its number and its letter (0 where it has none), and
\* a phrase that is of no type
Phrases ==
    { \* "5 Letter"
      [type |-> "length", n |-> 5, letter |-> 0,
       text |-> <<53, 32, 76, 101, 116, 116, 101, 114>>],
      \* "4 letter"
      [type |-> "length", n |-> 4, letter |-> 0,
       text |-> <<52, 32, 108, 101, 116, 116, 101, 114>>],
      \* "Starts with W"
      [type |-> "starts_with", n |-> 0, letter |-> 87,
       text |-> <<83, 116, 97, 114, 116, 115, 32, 119, 105, 116, 104, 32, 87>>],
      \* "start with a"
      [type |-> "starts_with", n |-> 0, letter |-> 97,
       text |-> <<115, 116, 97, 114, 116, 32, 119, 105, 116, 104, 32, 97>>],
      \* "ends with S"
      [type |-> "ends_with", n |-> 0, letter |-> 83,
       text |-> <<101, 110, 100, 115, 32, 119, 105, 116, 104, 32, 83>>],
      \* "End  with b"
      [type |-> "ends_with", n |-> 0, letter |-> 98,
       text |-> <<69, 110, 100, 32, 32, 119, 105, 116, 104, 32, 98>>],
      \* "contains O"
      [type |-> "contains", n |-> 0, letter |-> 79,
       text |-> <<99, 111, 110, 116, 97, 105, 110, 115, 32, 79>>],
      \* "Contain h"
      [type |-> "contains", n |-> 0, letter |-> 104,
       text |-> <<67, 111, 110, 116, 97, 105, 110, 32, 104>>],
      \* "3rd letter is T"
      [type |-> "contains_at_position", n |-> 3, letter |-> 84,
       text |-> <<51, 114, 100, 32, 108, 101, 116, 116, 101, 114, 32, 105, 115, 32, 84>>],
      \* "1st letter is w"
      [type |-> "contains_at_position", n |-> 1, letter |-> 119,
       text |-> <<49, 115, 116, 32, 108, 101, 116, 116, 101, 114, 32, 105, 115, 32, 119>>],
      \* "12th letter is E"
      [type |-> "contains_at_position", n |-> 12, letter |-> 69,
       text |-> <<49, 50, 116, 104, 32, 108, 101, 116, 116, 101, 114, 32, 105, 115, 32, 69>>],
      \* "also a word"
      [type |-> "none", n |-> 0, letter |-> 0,
       text |-> <<97, 108, 115, 111, 32, 97, 32, 119, 111, 114, 100>>] }

PhraseLists == UNION {[1..n -> Phrases] : n \in 0..MaxPhrases}

RECURSIVE JoinPhrases(_)
JoinPhrases(phrases) ==
    IF phrases = <<>> THEN <<>>
    ELSE IF Len(phrases) = 1 THEN phrases[1].text
    ELSE phrases[1].text \o <<chComma, chSpace>> \o JoinPhrases(Tail(phrases))

NextPhrases ==
    \/ \E phrases \in PhraseLists :
          ParseAdvancedQueryCall(phrases, JoinPhrases(phrases))
    \/ Return

SpecPhrases == Init /\ [][NextPhrases]_vars

\* ------------------------------------------------------------------------
\* The calls on the query cache
\* ------------------------------------------------------------------------
\* a response with n results (one-letter words in ascending order)
ResponseOf(n) == [results |-> Some([i \in 1..n |-> <<cha + i>>])]

\* null, a response without results, with none, with one (two such), with
\* one fewer than the bound and with as many as the bound
Responses ==
    { None,
      Some([results |-> None]),
      Some(ResponseOf(0)),
      Some([results |-> Some(<<Wwords>>)]),
      Some(ResponseOf(CacheableBelow - 1)),
      Some(ResponseOf(CacheableBelow)) }

\* as many one-character queries as the cache holds
Filler(i) == <<CacheLimit + i>>
FillerQueries == [i \in 1..CacheLimit |-> Filler(i)]

\* a query of its own and the first query of the burst
CacheQueries == {<<cha>>, Filler(1)}

\* the burst fills an empty cache
NextCache ==
    \/ \E query \in CacheQueries, results \in Responses :
          CacheResults(query, results)
    \/ /\ queryCache = <<>>
       /\ CacheResultsAll(FillerQueries, Some([results |-> Some(<<Wwords>>)]))
    \/ \E query \in CacheQueries : GetCachedResults(query)
    \/ \E ms \in {1, CACHE_TTL} : Tick(ms)
    \/ Return

SpecCache == Init /\ [][NextCache]_vars

\* ------------------------------------------------------------------------
\* The search page (pages/index.js)
\* ------------------------------------------------------------------------
MaxInFlight == 2

\* the state that handleSearch reads, as the render it was made in holds it
criteriaNow == [knownLetters |-> knownLetters,
                knownLettersWithoutPos |-> knownLettersWithoutPos,
                excludedLetters |-> excludedLetters]

\* knownLetters.map(letter => letter || '_').join('')
patternOf(c) ==
    [i \in 1..Len(c.knownLetters) |->
        IF c.knownLetters[i] = <<>> THEN chUnderscore
        ELSE c.knownLetters[i][1]]

someKnownLetter(c) ==
    \E i \in 1..Len(c.knownLetters) : c.knownLetters[i] # <<>>

upperChars(s) == [i \in 1..Len(s) |-> toUpperCaseChar(s[i])]

\* [...new Set(knownLettersWithoutPos.toUpperCase().split(''))], or []
requiredCharsOf(c) == NewSet(upperChars(c.knownLettersWithoutPos))

\* no search criteria (lines 43-47)
noCriteria(c) ==
    /\ ~someKnownLetter(c)
    /\ c.knownLettersWithoutPos = <<>>
    /\ c.excludedLetters = <<>>

\* the query handleSearch posts to /api/search, None when it posts none
queryOf(c) ==
    IF noCriteria(c) THEN None
    ELSE IF includes(patternOf(c), chUnderscore) \/ someKnownLetter(c)
    THEN Some(patternOf(c))
    ELSE IF Len(requiredCharsOf(c)) > 0
    THEN Some(<<chUnderscore, chUnderscore, chUnderscore, chUnderscore,
                chUnderscore>>)
    ELSE None

\* the contains filter and the excluded letters filter on the results of a
\* response
filterResults(found, c) ==
    LET required == requiredCharsOf(c)
        excluded == upperChars(c.excludedLetters)
    IN SelectSeq(found, LAMBDA word :
           /\ \A i \in 1..Len(required) :
                  includes(upperChars(word), required[i])
           /\ \A i \in 1..Len(excluded) :
                  ~includes(upperChars(word), excluded[i]))

\* the server of /api/search, initialised with the dictionary of the
\* examples: the results of its response to a POST of the query
serverEngine ==
    loadWords(NewEngine, <<Wwords, Wworks, Wwants, Wabout, Wworld>>)

serverResults(query) ==
    handlerResponse(serverEngine, [method |-> "POST", query |-> Some(query),
                                   advanced |-> FALSE]).results

NoLongerLatest(requests) ==
    [i \in 1..Len(requests) |-> [requests[i] EXCEPT !.latest = FALSE]]

\* an onChange of an input sets its state; the render runs the effect: the
\* pending timeout is cleared and a new one set, for the handleSearch of
\* this render
SetCriteria(c) ==
    /\ c # criteriaNow
    /\ knownLetters' = c.knownLetters
    /\ knownLettersWithoutPos' = c.knownLettersWithoutPos
    /\ excludedLetters' = c.excludedLetters
    /\ timeoutId' = Some(c)
    /\ inflight' = NoLongerLatest(inflight)
    /\ latestFailed' = FALSE
    /\ UNCHANGED <<pageResults, resultCount, isLoading>>
    /\ UNCHANGED <<engineVars, call, result, handlerVars, cacheVars>>

\* clearAll (lines 151-157); knownLetters is a new array, so the effect runs
clearAll ==
    /\ knownLetters' = <<<<>>, <<>>, <<>>, <<>>, <<>>>>
    /\ knownLettersWithoutPos' = <<>>
    /\ excludedLetters' = <<>>
    /\ pageResults' = <<>>
    /\ resultCount' = 0
    /\ timeoutId' = Some([knownLetters |-> <<<<>>, <<>>, <<>>, <<>>, <<>>>>,
                          knownLettersWithoutPos |-> <<>>,
                          excludedLetters |-> <<>>])
    /\ inflight' = NoLongerLatest(inflight)
    /\ latestFailed' = FALSE
    /\ UNCHANGED isLoading
    /\ UNCHANGED <<engineVars, call, result, handlerVars, cacheVars>>

\* the timeout fires: handleSearch runs up to its fetch
handleSearch ==
    /\ timeoutId # None
    /\ timeoutId' = None
    /\ LET c == timeoutId[1]
       IN IF noCriteria(c)
          THEN /\ pageResults' = <<>>
               /\ resultCount' = 0
               /\ UNCHANGED <<isLoading, inflight>>
          ELSE IF queryOf(c) # None
          THEN /\ Len(inflight) < MaxInFlight
               /\ isLoading' = TRUE
               /\ inflight' = Append(NoLongerLatest(inflight),
                                     [criteria |-> c, query |-> queryOf(c)[1],
                                      latest |-> c = criteriaNow])
               /\ UNCHANGED <<pageResults, resultCount>>
          ELSE UNCHANGED <<pageResults, resultCount, isLoading, inflight>>
    /\ UNCHANGED <<knownLetters, knownLettersWithoutPos, excludedLetters,
                   latestFailed>>
    /\ UNCHANGED <<engineVars, call, result, handlerVars, cacheVars>>

\* the response to the i-th request in flight arrives and handleSearch
\* resumes: with an error (the body has an error, or fetch throws) it sets
\* no results; the finally block runs in both cases
Respond(i, ok) ==
    /\ i \in 1..Len(inflight)
    /\ inflight' = [j \in 1..(Len(inflight) - 1) |->
                       IF j < i THEN inflight[j] ELSE inflight[j + 1]]
    /\ isLoading' = FALSE
    /\ IF ok
       THEN LET filteredResults ==
                    filterResults(serverResults(inflight[i].query),
                                  inflight[i].criteria)
            IN /\ pageResults' = filteredResults
               /\ resultCount' = Len(filteredResults)
               /\ UNCHANGED latestFailed
       ELSE /\ latestFailed' = (latestFailed \/ inflight[i].latest)
            /\ UNCHANGED <<pageResults, resultCount>>
    /\ UNCHANGED <<knownLetters, knownLettersWithoutPos, excludedLetters,
                   timeoutId>>
    /\ UNCHANGED <<engineVars, call, result, handlerVars, cacheVars>>

\* what the user enters: nothing, the pattern W___S, the same with the
\* letter O somewhere, and the excluded letter W alone
PageCriteria ==
    { [knownLetters |-> <<<<>>, <<>>, <<>>, <<>>, <<>>>>,
       knownLettersWithoutPos |-> <<>>, excludedLetters |-> <<>>],
      [knownLetters |-> <<<<87>>, <<>>, <<>>, <<>>, <<83>>>>,
       knownLettersWithoutPos |-> <<>>, excludedLetters |-> <<>>],
      [knownLetters |-> <<<<87>>, <<>>, <<>>, <<>>, <<83>>>>,
       knownLettersWithoutPos |-> <<79>>, excludedLetters |-> <<>>],
      [knownLetters |-> <<<<>>, <<>>, <<>>, <<>>, <<>>>>,
       knownLettersWithoutPos |-> <<>>, excludedLetters |-> <<87>>] }

NextPage ==
    \/ \E c \in PageCriteria : SetCriteria(c)
    \/ clearAll
    \/ handleSearch
    \/ \E i \in 1..MaxInFlight, ok \in BOOLEAN : Respond(i, ok)

SpecPage == Init /\ [][NextPage]_vars

\* ------------------------------------------------------------------------
\* The requests of the handler
\* ------------------------------------------------------------------------
Wwith == <<119, 105, 116, 104>>   \* "with"

Dictionaries ==
    { None,
      Some(<<>>),
      Some(<<Wwith, Wwords>>),
      Some(<<Wwords, Wworks, Wwants, Wabout, Wworld>>) }

HandlerQueries ==
    { None,
      Some(<<>>),
      Some(Qw___s),
      Some(<<87, 95, 95, 95, 83, 44, 32, 91, 79, 93>>),   \* "W___S, [O]"
      Some(<<53, 32, 108, 101, 116, 116, 101, 114>>),     \* "5 letter"
      \* "0 letter [O]"
      Some(<<48, 32, 108, 101, 116, 116, 101, 114, 32, 91, 79, 93>>),
      \* "5 Letter, Starts with W, ends with S, also contains O"
      Some(<<53, 32, 76, 101, 116, 116, 101, 114, 44, 32, 83, 116, 97, 114, 116, 115, 32, 119, 105, 116, 104, 32, 87, 44, 32, 101, 110, 100, 115, 32, 119, 105, 116, 104, 32, 83, 44, 32, 97, 108, 115, 111, 32, 99, 111, 110, 116, 97, 105, 110, 115, 32, 79>>),
      \* "4 letter word, 3rd letter is T, contains H"
      Some(<<52, 32, 108, 101, 116, 116, 101, 114, 32, 119, 111, 114, 100, 44, 32, 51, 114, 100, 32, 108, 101, 116, 116, 101, 114, 32, 105, 115, 32, 84, 44, 32, 99, 111, 110, 116, 97, 105, 110, 115, 32, 72>>) }

Requests ==
    [method : {"GET", "POST", "PUT"},
     query : HandlerQueries,
     advanced : BOOLEAN]

NextHandler ==
    \/ \E req \in Requests, dictionary \in Dictionaries :
          Handler(req, dictionary)
    \/ Return

SpecHandler == Init /\ [][NextHandler]_vars

\* ------------------------------------------------------------------------
\* Properties
\* ------------------------------------------------------------------------
Vocabulary == Elems(words)

\* word w fits pattern p: same length, equal at every position that is not
\* the wildcard
Matches(w, p) ==
    /\ Len(w) = Len(p)
    /\ \A i \in 1..Len(p) : p[i] # chUnderscore => w[i] = p[i]

Occurs(c, w) == \E i \in 1..Len(w) : w[i] = c

\* a is before b in lexicographic order of the code units
LexLess(a, b) ==
    \E k \in 1..Len(b) :
        /\ k <= Len(a) + 1
        /\ \A i \in 1..(k - 1) : a[i] = b[i]
        /\ k <= Len(a) => a[k] < b[k]

StrictlyAscending(s) == \A i \in 1..(Len(s) - 1) : LexLess(s[i], s[i + 1])

\* the sequence s lists exactly the set S, each element once
ListsExactly(s, S) == Elems(s) = S /\ Distinct(s)

OnlyPatternChars(q) ==
    \A i \in 1..Len(q) : IsLetter(q[i]) \/ q[i] = chUnderscore

\* C1: search on a query made only of letters and '_' returns exactly the
\* loaded words of the pattern's length that equal the lowercased pattern at
\* every literal position, and the empty sequence when no word matches.
C1_PatternQueryExact ==
    (call.op = "search" /\ OnlyPatternChars(call.arg))
        => ListsExactly(result,
                        {w \in Vocabulary : Matches(w, toLowerCase(call.arg))})

\* the tail of a query of the form 'W___, [H]': groups ", [X]"
IsBracketTail(t) ==
    /\ Len(t) > 0
    /\ Len(t) % 5 = 0
    /\ \A k \in 0..((Len(t) \div 5) - 1) :
          /\ t[5 * k + 1] = chComma
          /\ t[5 * k + 2] = chSpace
          /\ t[5 * k + 3] = chLBracket
          /\ IsLetter(t[5 * k + 4])
          /\ t[5 * k + 5] = chRBracket

BracketTailChars(t) ==
    {toLowerCaseChar(t[5 * k + 4]) : k \in 0..((Len(t) \div 5) - 1)}

\* the query is a pattern of n characters followed by bracket groups
IsPatternWithRequired(q, n) ==
    /\ n >= 1
    /\ n < Len(q)
    /\ OnlyPatternChars(SubSeq(q, 1, n))
    /\ IsBracketTail(SubSeq(q, n + 1, Len(q)))

\* C2: search on a pattern followed by bracket-delimited required characters
\* returns exactly the loaded words that match the pattern and contain every
\* required character.
C2_PatternWithRequiredChars ==
    call.op = "search" =>
        \A n \in 1..Len(call.arg) :
            IsPatternWithRequired(call.arg, n) =>
                ListsExactly(result,
                    {w \in Vocabulary :
                        /\ Matches(w, toLowerCase(SubSeq(call.arg, 1, n)))
                        /\ \A c \in BracketTailChars(
                                        SubSeq(call.arg, n + 1, Len(call.arg))) :
                               Occurs(c, w)})

\* the query carries required characters and an '<N> letter' phrase
HasRequiredAndLength(q) ==
    /\ parseQuery(q).requiredChars # <<>>
    /\ LengthPhrase(q) # None

\* C3: search on a query with required characters and an '<N> letter' phrase
\* returns exactly the loaded words of length N that contain every required
\* character; it is empty when a required character is in no loaded word.
C3_RequiredCharsAndLength ==
    (call.op = "search" /\ HasRequiredAndLength(call.arg))
        => ListsExactly(result,
               {w \in Vocabulary :
                   /\ Len(w) = LengthPhrase(call.arg)[1]
                   /\ \A c \in Elems(parseQuery(call.arg).requiredChars) :
                          Occurs(c, w)})

\* C4: after load of {"words","works","wants","about","world"},
\* search("w___s") returns exactly <<"words", "works">>.
C4_ScenarioSearch ==
    (call.op = "search" /\ call.arg = Qw___s /\ Vocabulary = ScenarioWords)
        => result = <<Wwords, Wworks>>

\* C4 (amended): after load of {"words","works","wants","about","world"},
\* search("w___s") returns exactly <<"wants", "words", "works">>: "wants"
\* fits the pattern too.
C4_ScenarioSearchAmended ==
    (call.op = "search" /\ call.arg = Qw___s /\ Vocabulary = ScenarioWords)
        => result = <<Wwants, Wwords, Wworks>>

\* the search is made on a dictionary whose keys are not in sorted order
C4_Witness ==
    /\ call.op = "search"
    /\ call.arg = Qw___s
    /\ Vocabulary = ScenarioWords
    /\ words[1] = Wworks
    /\ words[5] = Wwants
    /\ Len(result) = 3

\* C5: the sequence search returns is strictly ascending in lexicographic
\* order and each of its elements is a word of the loaded Vocabulary.
C5_SearchSortedSubset ==
    call.op = "search"
        => StrictlyAscending(result) /\ Elems(result) \subseteq Vocabulary

C5_Witness ==
    /\ call.op = "search"
    /\ Len(result) >= 2
    /\ words[1] = result[2]

\* --- advancedSearch -----------------------------------------------------
RecognizedTypes ==
    {"length", "starts_with", "ends_with", "contains_at_position", "contains"}

StartsWith(w, v) == Len(v) <= Len(w) /\ SubSeq(w, 1, Len(v)) = v

EndsWith(w, v) ==
    Len(v) <= Len(w) /\ SubSeq(w, Len(w) - Len(v) + 1, Len(w)) = v

\* word w satisfies a constraint of a recognized type
Satisfies(w, c) ==
    CASE c.type = "length" -> Len(w) = c.number
      [] c.type = "starts_with" -> StartsWith(w, c.value)
      [] c.type = "ends_with" -> EndsWith(w, c.value)
      [] c.type = "contains_at_position" ->
             c.position + 1 <= Len(w) /\ <<w[c.position + 1]>> = c.char
      [] c.type = "contains" -> \E i \in 1..Len(w) : <<w[i]>> = c.value

\* the constraints C6 is about: recognized types, prefixes non-empty
IsPlainConstraint(c) ==
    /\ c.type \in RecognizedTypes
    /\ c.type = "starts_with" => c.value # <<>>

\* C6: for a list of constraints of the recognized types (prefixes
\* non-empty) advancedSearch returns, sorted ascending and without
\* duplicates, exactly the loaded words that satisfy every constraint of the
\* list; for the empty list that is the whole Vocabulary.
C6_AdvancedSearchExact ==
    (/\ call.op = "advancedSearch"
     /\ \A i \in 1..Len(call.arg) : IsPlainConstraint(call.arg[i]))
        => /\ StrictlyAscending(result)
           /\ Elems(result) =
                  {w \in Vocabulary :
                      \A i \in 1..Len(call.arg) : Satisfies(w, call.arg[i])}

\* two constraints, one of them on a position, keep some words and drop
\* others
C6_Witness ==
    /\ call.op = "advancedSearch"
    /\ Len(call.arg) = 2
    /\ \A i \in 1..2 : IsPlainConstraint(call.arg[i])
    /\ call.arg[1].type = "contains_at_position"
    /\ call.arg[1].position = 1
    /\ call.arg[2].type = "starts_with"
    /\ result # <<>>
    /\ Elems(result) # Vocabulary
    /\ \E w \in Vocabulary : Occurs(chb, w) /\ w \notin Elems(result)

\* the lists that hold the constraints of list L in another order
Reorderings(L) ==
    {[i \in 1..Len(L) |-> L[f[i]]] :
        f \in {g \in [1..Len(L) -> 1..Len(L)] :
                  \A i, j \in 1..Len(L) : i # j => g[i] # g[j]}}

\* C7: advancedSearch on any permutation of the constraint list returns the
\* same sequence.
C7_ConstraintOrderIrrelevant ==
    call.op = "advancedSearch"
        => \A P \in Reorderings(call.arg) :
               advancedSearch(engine, P) = result

\* two constraints of different types, the second dropping a word that the
\* first keeps
C7_Witness ==
    /\ call.op = "advancedSearch"
    /\ Len(call.arg) = 2
    /\ call.arg[1].type = "length"
    /\ call.arg[2].type = "ends_with"
    /\ Len(advancedSearch(engine, <<call.arg[1]>>)) > Len(result)
    /\ result # <<>>

IsRecognized(c) == c.type \in RecognizedTypes

\* C8: constraints of an unrecognized type are no-ops: the result is that of
\* the list without them.
C8_UnrecognizedIgnored ==
    call.op = "advancedSearch"
        => result = advancedSearch(engine, SelectSeq(call.arg, IsRecognized))

\* an unrecognized constraint next to one that narrows a non-empty result
C8_Witness ==
    /\ call.op = "advancedSearch"
    /\ Len(call.arg) = 2
    /\ ~IsRecognized(call.arg[1])
    /\ IsRecognized(call.arg[2])
    /\ result # <<>>
    /\ Elems(result) # Vocabulary

\* --- Trie ---------------------------------------------------------------
\* C9: searchByPattern(P) returns, each exactly once, precisely the inserted
\* words of the length of P that equal P at every position that is not a
\* wildcard.
C9_PatternSearchExact ==
    call.op = "searchByPattern"
        => ListsExactly(result, {w \in Vocabulary : Matches(w, call.arg)})

\* a pattern with a wildcard finds a word and passes over a longer word that
\* begins with a match
C9_Witness ==
    /\ call.op = "searchByPattern"
    /\ \E i \in 1..Len(call.arg) : call.arg[i] = chUnderscore
    /\ result # <<>>
    /\ \E w \in Vocabulary :
          /\ Len(w) > Len(call.arg)
          /\ Matches(SubSeq(w, 1, Len(call.arg)), call.arg)
          /\ SubSeq(w, 1, Len(call.arg)) \notin Vocabulary

\* --- InvertedIndex ------------------------------------------------------
\* C10: getWordsWithChar(c) is exactly the set of added words in which c
\* occurs and getWordsWithCharAtPosition(c, i) exactly the set of added
\* words W with W[i] = c (i zero-based); both are empty for a character
\* that was never indexed.
C10_InvertedIndexExact ==
    /\ call.op = "getWordsWithChar"
          => ListsExactly(result, {w \in Vocabulary : Occurs(call.arg, w)})
    /\ call.op = "getWordsWithCharAtPosition"
          => ListsExactly(result,
                 {w \in Vocabulary :
                     /\ call.position + 1 <= Len(w)
                     /\ w[call.position + 1] = call.arg})

\* a lookup at position 1 finds one word and not another that holds the
\* character at position 0 only
C10_Witness ==
    /\ call.op = "getWordsWithCharAtPosition"
    /\ call.position = 1
    /\ result # <<>>
    /\ \E w \in Vocabulary :
          /\ w \notin Elems(result)
          /\ w[1] = call.arg

C12_LoadReplaces ==
    call.op = "loadWords" => engine = loadWords(NewEngine, call.arg)

\* load(B) is made on an engine that holds a word B has not and a word B
\* has
C12_Witness ==
    /\ call.op = "loadWords"
    /\ \E w \in Elems(call.before) : w \notin Elems(call.arg)
    /\ \E w \in Elems(call.before) : w \in Elems(call.arg)
    /\ Len(call.arg) = 2

\* the words each structure of the engine holds
WordsOfTrie == {p \in DOMAIN trie : trie[p].isEndOfWord}

WordsOfIndex ==
    UNION {Elems(invertedIndex.index[c]) : c \in DOMAIN invertedIndex.index}

WordsOfLengthIndex ==
    UNION {Elems(wordLengthIndex[n]) : n \in DOMAIN wordLengthIndex}

QueryOps == {"search", "advancedSearch", "getSuggestions"}

\* C13: no query observes an engine in the middle of a load: when search,
\* advancedSearch or getSuggestions runs, the Vocabulary, the trie, the
\* inverted index and the length index hold the same words, and when
\* loadWords has returned every key of the word list is in.
C13_NoPartialLoadVisible ==
    /\ call.op \in QueryOps
          => /\ WordsOfTrie = Vocabulary
             /\ WordsOfIndex = Vocabulary
             /\ WordsOfLengthIndex = Vocabulary
    /\ call.op = "loadWords"
          => /\ Vocabulary = Elems(call.arg)
             /\ WordsOfTrie = Vocabulary
             /\ WordsOfIndex = Vocabulary
             /\ WordsOfLengthIndex = Vocabulary

\* a query finds a word of an engine that was loaded with two words
C13_Witness ==
    /\ call.op \in QueryOps
    /\ Len(words) = 2
    /\ result # <<>>

\* C14: search, advancedSearch and getSuggestions leave the engine as it
\* was: the Vocabulary, every node of the trie, every entry of the inverted
\* index and every bucket of the length index are the same after the call
\* as before, so that the query made again on the engine returns the same
\* result.
C14_QueriesLeaveEngine ==
    [][call'.op \in QueryOps
          => /\ engine' = engine
             /\ call'.op = "search" => search(engine', call'.arg) = result'
             /\ call'.op = "advancedSearch"
                   => advancedSearch(engine', call'.arg) = result'
             /\ call'.op = "getSuggestions"
                   => getSuggestions(engine', call'.arg) = result']_vars

\* a query has returned some words of the engine and not others
C14_Witness ==
    /\ call.op = "advancedSearch"
    /\ call.arg # <<>>
    /\ result # <<>>
    /\ Elems(result) # Vocabulary

\* --- lookups that match nothing ------------------------------------------
\* the query names a pattern, a required character or a length that no
\* loaded word has
SearchMatchesNothing(q) ==
    LET p == parseQuery(q)
    IN \/ /\ p.pattern # None
          /\ ~\E w \in Vocabulary : Matches(w, p.pattern[1])
       \/ \E c \in Elems(p.requiredChars) :
              ~\E w \in Vocabulary : Occurs(c, w)
       \/ /\ p.length # None
          /\ p.length[1] # 0
          /\ ~\E w \in Vocabulary : Len(w) = p.length[1]

\* C15: on any loaded engine, the empty one included, Trie.search,
\* searchByPattern, getWordsWithChar, getWordsWithCharAtPosition, search
\* and advancedSearch return an empty result whenever the prefix, pattern,
\* character, position or length they are given matches no loaded word.
C15_NoMatchIsEmpty ==
    /\ (/\ call.op = "trieSearch"
         /\ ~\E w \in Vocabulary : StartsWith(w, call.arg))
            => result = <<>>
    /\ (/\ call.op = "searchByPattern"
         /\ ~\E w \in Vocabulary : Matches(w, call.arg))
            => result = <<>>
    /\ (/\ call.op = "getWordsWithChar"
         /\ ~\E w \in Vocabulary : Occurs(call.arg, w))
            => result = <<>>
    /\ (/\ call.op = "getWordsWithCharAtPosition"
         /\ ~\E w \in Vocabulary :
                /\ call.position + 1 <= Len(w)
                /\ w[call.position + 1] = call.arg)
            => result = <<>>
    /\ (call.op = "search" /\ SearchMatchesNothing(call.arg))
            => result = <<>>
    /\ (/\ call.op = "advancedSearch"
         /\ \E i \in 1..Len(call.arg) :
                /\ IsRecognized(call.arg[i])
                /\ ~\E w \in Vocabulary : Satisfies(w, call.arg[i]))
            => result = <<>>

\* --- handler ------------------------------------------------------------
\* the query payload of a request is missing or empty
PayloadMissing(req) == req.query = None \/ req.query = Some(<<>>)

\* C16: a request whose query payload is missing or empty is answered with
\* an error response of status 400 and search, advancedSearch and
\* getSuggestions are not invoked.
C16_MissingQueryRejected ==
    (call.op = "handler" /\ PayloadMissing(call.req))
        => result.status = 400 /\ result.invoked = <<>>

\* C16 (amended): a GET or POST request whose query payload is missing or
\* empty is answered with status 400 when the engine is initialised and
\* with 500 when its initialisation fails, a request of any other method
\* with 405; in each case search, advancedSearch and getSuggestions are not
\* invoked.
C16_MissingQueryRejectedAmended ==
    (call.op = "handler" /\ PayloadMissing(call.req))
        => /\ result.invoked = <<>>
           /\ result.status =
                  IF call.req.method \notin {"GET", "POST"} THEN 405
                  ELSE IF isInitialized THEN 400 ELSE 500

\* a POST request with the empty query is rejected by an engine that holds
\* words
C16_Witness ==
    /\ call.op = "handler"
    /\ call.req.method = "POST"
    /\ call.req.query = Some(<<>>)
    /\ result.status = 400
    /\ words # <<>>

\* --- case ---------------------------------------------------------------
IsLowercase(w) == w = toLowerCase(w)

\* C17: every word held in the Vocabulary and in the indexes after load is
\* lowercase: a word given to load with uppercase letters is stored,
\* matched and returned as its lowercase form.
C17_StoredLowercase ==
    /\ \A w \in Vocabulary \cup WordsOfTrie \cup WordsOfIndex
                \cup WordsOfLengthIndex : IsLowercase(w)
    /\ call.op = "loadWords"
          => Vocabulary = {toLowerCase(w) : w \in Elems(call.arg)}
    /\ call.op = "search" => \A w \in Elems(result) : IsLowercase(w)

\* the query is a pattern: letters and wildcards only, one wildcard at least
IsWildcardPattern(q) == OnlyPatternChars(q) /\ includes(q, chUnderscore)

\* C18: getSuggestions reads the letters of a pattern query without regard
\* to case, as search does: on a lowercase vocabulary the suggestions for
\* "W___" are those for "w___", up to 5 loaded words that match the pattern.
C18_SuggestionsIgnoreCase ==
    (/\ call.op = "getSuggestions"
     /\ IsWildcardPattern(call.arg)
     /\ \A w \in Vocabulary : IsLowercase(w))
        => LET matching == {w \in Vocabulary :
                               Matches(w, toLowerCase(call.arg))}
           IN /\ result = getSuggestions(engine, toLowerCase(call.arg))
              /\ Elems(result) \subseteq matching
              /\ Distinct(result)
              /\ Len(result) = IF Cardinality(matching) < 5
                               THEN Cardinality(matching) ELSE 5

\* --- Trie nodes ---------------------------------------------------------
\* the reachable-word set of a node is right: it holds the inserted words
\* whose path passes through the node, which are the words of its children
\* and the node's own word when it is marked end-of-word
NodeWordsExact(node) ==
    /\ Elems(trie[node].words) = {w \in Vocabulary : StartsWith(w, node)}
    /\ Elems(trie[node].words) =
           UNION {Elems(trie[Append(node, c)].words) :
                     c \in Elems(trie[node].children)}
           \cup (IF trie[node].isEndOfWord THEN {node} ELSE {})

\* C19: after any sequence of insert operations, at every node of the trie,
\* the root included, the node's reachable-word set is the set of inserted
\* words whose insertion path passes through the node: the union of its
\* children's sets plus the word that ends at the node.
C19_NodeWordsExact ==
    \A node \in DOMAIN trie : NodeWordsExact(node)

\* C20: for every non-empty prefix p, Trie.search(p) returns, each once,
\* exactly the inserted words that begin with p, and the empty sequence
\* when some character of p has no matching child along the path.
C20_PrefixSearchExact ==
    (call.op = "trieSearch" /\ call.arg # <<>>)
        => /\ ListsExactly(result,
                           {w \in Vocabulary : StartsWith(w, call.arg)})
           /\ call.arg \notin DOMAIN trie => result = <<>>

\* a prefix that is a word itself finds that word and a longer one
C20_Witness ==
    /\ call.op = "trieSearch"
    /\ Len(call.arg) = 2
    /\ Len(result) = 2
    /\ call.arg \in Elems(result)

\* --- length index -------------------------------------------------------
\* C21: after any sequence of loadWords and addWord calls the length index
\* partitions the Vocabulary: every word of the Vocabulary is in the bucket
\* of its own length and in no other, no bucket holds a word outside the
\* Vocabulary, and the union of the buckets is the Vocabulary.
C21_LengthIndexPartitions ==
    /\ \A w \in Vocabulary :
          /\ Len(w) \in DOMAIN wordLengthIndex
          /\ \A n \in DOMAIN wordLengthIndex :
                 SetHas(wordLengthIndex[n], w) <=> n = Len(w)
    /\ \A n \in DOMAIN wordLengthIndex :
          /\ Elems(wordLengthIndex[n]) \subseteq Vocabulary
          /\ Distinct(wordLengthIndex[n])
    /\ WordsOfLengthIndex = Vocabulary

\* addWord has put a word into a second bucket
C21_Witness ==
    /\ call.op = "addWord"
    /\ Len(words) = 2
    /\ Len(words[1]) # Len(words[2])
    /\ Cardinality(DOMAIN wordLengthIndex) = 2

\* --- addWord ------------------------------------------------------------
\* C22: adding a word that is already loaded is idempotent: addWord(w) on
\* an engine that holds w leaves the Vocabulary, every node of the trie,
\* every word-set and position-set of the inverted index and every bucket
\* of the length index unchanged.
C22_AddWordIdempotent ==
    [][(call'.op = "addWord" /\ call.op = "idle" /\ SetHas(words, call'.arg))
          => engine' = engine]_vars

\* addWord was called with the first of two loaded words: the word was in
\* the engine before the call
C22_Witness ==
    /\ call.op = "addWord"
    /\ Len(words) = 2
    /\ call.arg = words[1]
    /\ Len(call.arg) >= 2

\* --- parseQuery ---------------------------------------------------------
\* C23: parseQuery yields a pattern if and only if the whole query is a
\* non-empty string of letters and '_'; the pattern is then the lowercased
\* query and the length its number of characters. No query parses to a
\* pattern together with required characters or with an explicit
\* '<N> letter' length.
C23_PatternIffWholeQuery ==
    call.op = "parseQuery"
        => /\ result.pattern # None
                 <=> (call.arg # <<>> /\ OnlyPatternChars(call.arg))
           /\ result.pattern # None
                 => /\ result.pattern = Some(toLowerCase(call.arg))
                    /\ result.length = Some(Len(call.arg))
                    /\ result.requiredChars = <<>>
                    /\ LengthPhrase(call.arg) = None

\* a query of letters in both cases and a wildcard has parsed to a pattern
C23_Witness ==
    /\ call.op = "parseQuery"
    /\ result.pattern # None
    /\ Len(call.arg) = 3
    /\ \E i \in 1..3 : IsUpper(call.arg[i])
    /\ \E i \in 1..3 : call.arg[i] = chUnderscore

\* --- the sources of the suggestions --------------------------------------
\* w is a suggestion of the pattern source: q holds a wildcard and w fits q
\* stripped to its letters and wildcards
FromPattern(w, q) ==
    /\ Occurs(chUnderscore, q)
    /\ Matches(w, SelectSeq(q, LAMBDA c : IsLetter(c) \/ c = chUnderscore))

\* w is a suggestion of the length source: q holds a '<N> letter' phrase
\* and w has N characters
FromLength(w, q) ==
    /\ LengthPhrase(q) # None
    /\ Len(w) = LengthPhrase(q)[1]

HandlerStep == call.op = "idle" /\ call'.op = "handler"

\* a request that queries the engine does so after exactly one loadWords
\* call has completed, on the engine that call built; a completed load is
\* never followed by another; a request whose initialisation throws is
\* answered 500, queries nothing and leaves the flag down
InitialisedBeforeQueries ==
    HandlerStep =>
        /\ result'.invoked # <<>> =>
               /\ isInitialized'
               /\ Len(loads') = 1
               /\ engine' = loadWords(NewEngine, loads'[1])
        /\ loads # <<>> => loads' = loads
        /\ call'.threw =>
               /\ result'.status = 500
               /\ result'.invoked = <<>>
               /\ ~isInitialized'
               /\ loads' = <<>>

InitialisationTried == call'.loaded \/ call'.threw

\* C25: over any sequence of requests, every query is made on an engine
\* whose loadWords call has completed, loadWords is not called again once
\* an initialisation has succeeded, a request whose initialisation fails
\* gets an error response and leaves the engine marked uninitialised, and
\* the request after it tries the initialisation again (as stated: whatever
\* that request is)
C25_InitialisedBeforeQueries ==
    [][/\ InitialisedBeforeQueries
       /\ (HandlerStep /\ lastFailed) => InitialisationTried]_vars

\* C25 amended: the same, where the request after a failed initialisation
\* tries it again when its method is GET or POST (any other method is
\* answered 405 before the initialisation)
C25_InitialisedBeforeQueriesAmended ==
    [][/\ InitialisedBeforeQueries
       /\ (HandlerStep /\ lastFailed) =>
              (InitialisationTried <=> call'.req.method \in {"GET", "POST"})]_vars

\* a request that follows a failed initialisation has loaded the dictionary
\* and answers its query from it
C25_Witness ==
    /\ call.op = "handler"
    /\ call.afterFailure
    /\ call.loaded
    /\ result.status = 200
    /\ result.results # <<>>

\* the length a query asks for in a '<N> letter' phrase
AsksLength(query, n) == LengthPhrase(query) = Some(n)

\* C26: in every successful response each word of results and of
\* suggestions has exactly 5 letters and count is the number of results;
\* hence a request whose query asks for a length other than 5 gets an
\* empty result list
C26_FiveLetterResponses ==
    (call.op = "handler" /\ result.status = 200)
        => /\ \A i \in 1..Len(result.results) : Len(result.results[i]) = 5
           /\ \A i \in 1..Len(result.suggestions) :
                  Len(result.suggestions[i]) = 5
           /\ result.count = Len(result.results)
           /\ ~AsksLength(result.query, 5) /\ LengthPhrase(result.query) # None
                  => result.results = <<>>

\* the constraint a phrase stands for: its letter in lowercase, and for an
\* 'Nth letter is X' phrase the zero-based position N - 1
ConstraintOf(phrase) ==
    IF phrase.type = "length"
    THEN [type |-> "length", number |-> phrase.n]
    ELSE IF phrase.type = "contains_at_position"
    THEN [type |-> "contains_at_position",
          char |-> <<toLowerCaseChar(phrase.letter)>>,
          position |-> phrase.n - 1]
    ELSE [type |-> phrase.type, value |-> <<toLowerCaseChar(phrase.letter)>>]

\* the constraint of the first phrase of a type, if there is one
FirstOfType(phrases, type) ==
    LET at == {i \in 1..Len(phrases) : phrases[i].type = type}
    IN IF at = {} THEN <<>>
       ELSE <<ConstraintOf(phrases[CHOOSE i \in at : \A j \in at : i <= j])>>

\* C27: parseAdvancedQuery emits at most one constraint per phrase type,
\* that of the first phrase of the type in the query, in the order length,
\* starts_with, ends_with, contains, contains_at_position, with letters in
\* lowercase and the ordinal N as the position N - 1
C27_FirstPhrasePerType ==
    call.op = "parseAdvancedQuery"
        => result = FirstOfType(call.phrases, "length")
                    \o FirstOfType(call.phrases, "starts_with")
                    \o FirstOfType(call.phrases, "ends_with")
                    \o FirstOfType(call.phrases, "contains")
                    \o FirstOfType(call.phrases, "contains_at_position")

\* an ordinal phrase written before two different 'starts with' phrases:
\* the first of the two is kept and comes before the position
C27_Witness ==
    /\ call.op = "parseAdvancedQuery"
    /\ Len(call.phrases) = 3
    /\ call.phrases[1].type = "contains_at_position"
    /\ call.phrases[2].type = "starts_with"
    /\ call.phrases[3].type = "starts_with"
    /\ call.phrases[2].letter # call.phrases[3].letter
    /\ Len(result) = 2
    /\ result[1].type = "starts_with"
    /\ result[1].value = <<toLowerCaseChar(call.phrases[2].letter)>>
    /\ result[2].position = call.phrases[1].n - 1

\* the steps that are calls of cacheResults and of getCachedResults
CacheStep == call.op = "idle" /\ call'.op = "cacheResults"
LookupStep == call.op = "idle" /\ call'.op = "getCachedResults"

CachedQueries(map) == {map[i].query : i \in 1..Len(map)}

\* C28: the cache holds at most 100 entries; a call of cacheResults that
\* would make it exceed 100 drops the entry whose key was inserted
\* earliest and keeps the entry it has just set; a call with no response,
\* with zero results or with 100 or more leaves the cache as it is
C28_CacheBounded ==
    [][/\ Len(queryCache') <= 100
       /\ CacheStep =>
            LET n == IF call'.results = None \/ call'.results[1].results = None
                     THEN 0 ELSE Len(call'.results[1].results[1])
                entry == [query |-> call'.arg, results |-> call'.results[1],
                          timestamp |-> now]
                known == call'.arg \in CachedQueries(queryCache)
            IN IF n = 0 \/ n >= 100
               THEN queryCache' = queryCache
               ELSE IF ~known /\ Len(queryCache) = 100
               THEN queryCache' = Append(Tail(queryCache), entry)
               ELSE /\ CachedQueries(queryCache')
                          = CachedQueries(queryCache) \cup {call'.arg}
                    /\ entry \in {queryCache'[i] : i \in 1..Len(queryCache')}]_vars

\* a full cache has taken a new query: the earliest key is gone
C28_Witness ==
    /\ call.op = "cacheResults"
    /\ Len(queryCache) = 100
    /\ queryCache[Len(queryCache)].query = call.arg
    /\ call.arg = <<cha>>
    /\ queryCache[1].query = Filler(2)

\* the entry that cacheResults has set last for a query, if it has set one
LastStored(query) ==
    IF CacheIndex(stored, query) = 0 THEN None
    ELSE Some(stored[CacheIndex(stored, query)])

\* C29: getCachedResults(query) returns a value only if it is the value
\* cacheResults has stored last under that query, stored no more than
\* CACHE_TTL (5 minutes) earlier; for an entry older than that it deletes
\* the entry and returns null; for a query not in the cache it returns null
\* and leaves the cache as it is
C29_FreshCachedValue ==
    [][LookupStep =>
         LET query == call'.arg
             at == CacheIndex(queryCache, query)
         IN /\ result' # None =>
                  /\ LastStored(query) # None
                  /\ result' = Some(LastStored(query)[1].results)
                  /\ now - LastStored(query)[1].timestamp <= 5 * 60 * 1000
            /\ (at # 0 /\ now - queryCache[at].timestamp > 5 * 60 * 1000) =>
                  /\ result' = None
                  /\ query \notin CachedQueries(queryCache')
                  /\ \A i \in 1..Len(queryCache) :
                         i # at => queryCache[i] \in
                             {queryCache'[j] : j \in 1..Len(queryCache')}
                  /\ Len(queryCache') = Len(queryCache) - 1
            /\ at = 0 => (result' = None /\ queryCache' = queryCache)]_vars

\* a query cached twice with different responses is looked up exactly
\* CACHE_TTL after the second call: the second response is returned
C29_Witness ==
    /\ call.op = "getCachedResults"
    /\ call.arg = <<cha>>
    /\ result = Some(ResponseOf(CacheableBelow - 1))
    /\ LastStored(<<cha>>)[1].timestamp = 1
    /\ now = CACHE_TTL + 1
    /\ Len(queryCache) = CacheLimit

\* the results the page computes for criteria
ResultsFor(c) ==
    IF queryOf(c) = None THEN <<>>
    ELSE filterResults(serverResults(queryOf(c)[1]), c)

\* C30: once no timeout is pending and every request has been answered
\* (the one for the criteria as they are without an error), the results
\* and the result count shown are those of the criteria as they are
C30_LatestCriteriaShown ==
    (timeoutId = None /\ inflight = <<>> /\ ~latestFailed)
        => /\ pageResults = ResultsFor(criteriaNow)
           /\ resultCount = Len(ResultsFor(criteriaNow))

====
